---- MODULE Spec2Model ----
(***************************************************************************)
(* Model of scripts/benchmark_models.py: the trial executor                *)
(* (run_single_chat), the concurrency-bounded scheduler (run_benchmark)    *)
(* and the aggregator (aggregate, percentile).                             *)
(*                                                                         *)
(* Six specifications share the operators that model the code:             *)
(*   ChatSpec  one trial of run_single_chat, stepped line by line;         *)
(*   Spec      run_benchmark: tasks, the semaphore and as_completed,       *)
(*             followed by main's call of aggregate;                       *)
(*   FairSpec  Spec with the fairness of the asyncio event loop;           *)
(*   AggSpec   aggregate applied to lists of outcomes of run_single_chat;  *)
(*   PctSpec   percentile applied to samples;                              *)
(*   BoundSpec one task of bound_request, from its creation to the release *)
(*             of its slot, with the clock running while it waits.         *)
(*                                                                         *)
(* Optional[...] values are modelled as sequences: None is <<>> and a      *)
(* present value x is <<x>>.  Floats are modelled as exact rationals       *)
(* [n, d]; float("nan") is the record NaN.  A str is modelled by what the  *)
(* code measures of it: its length in characters and in UTF-8 bytes.       *)
(***************************************************************************)
EXTENDS Integers, Sequences, FiniteSets, TLC

VARIABLES
    \* ---- run_benchmark (lines 243-269)
    servers,      \* the servers argument: a sequence of ServerSpec
    prompts,      \* the prompts argument: a sequence of prompt texts
    iterations,   \* the iterations argument
    concurrency,  \* the concurrency argument
    stream,       \* cfg.stream
    semaphore,    \* asyncio.Semaphore: its free slots
    tasks,        \* the tasks list: one [srv, pidx, it] per created task
    tstate,       \* per task: "waiting", "running" or "done"
    tresult,      \* per task: the SingleResult its coroutine returned, or None
    tresp,        \* per task: what its server did (a Response), or None
    completed,    \* as_completed's queue: finished tasks not yet awaited
    finished,     \* every finished task, in the order of finishing
    results,      \* the results list
    mainpc,       \* run_benchmark's position
    admitted,     \* the clock when the observed task acquired its slot, or None
    \* ---- run_single_chat (lines 103-240), one trial
    cpc,          \* position: "request", "stream" or "returned"
    clk,          \* time.perf_counter(), in seconds
    t0,           \* the start timestamp
    loc,          \* the local variables of lines 136-140 and 149
    feed,         \* the lines of resp.aiter_lines() consumed so far
    body,         \* the body of the non-streaming response, or None
    cresult,      \* the SingleResult returned, or None
    \* ---- aggregate (lines 272-307)
    aresults,     \* the results argument
    asummary,     \* what aggregate returned or raised, or None
    apc,          \* "call" or "done"
    \* ---- percentile (lines 89-100)
    pvalues,      \* the values argument
    pp,           \* the p argument, as the fraction <<numerator, denominator>>
    pret          \* the value returned, or None

bvars == <<servers, prompts, iterations, concurrency, semaphore, tasks, tstate,
           tresult, tresp, completed, finished, results, mainpc, admitted>>
cvars == <<cpc, clk, t0, loc, feed, body, cresult>>
avars == <<aresults, asummary, apc>>
pvars == <<pvalues, pp, pret>>
vars == <<bvars, stream, cvars, avars, pvars>>

-----------------------------------------------------------------------------
(* Bounds of the model. *)

MaxServers == 2
MaxPrompts == 2
MaxIterations == 3
MaxConcurrency == 2
MaxTrials == 3
MaxClock == 2
MaxLines == 2
MaxResults == 3
MaxSample == 3
MaxValue == 2

-----------------------------------------------------------------------------
(* Optional values and texts. *)

None == <<>>
Some(x) == <<x>>

Text(c, b) == [chars |-> c, bytes |-> b]
\* "", "Hi", " there", a 1-character text of 2 UTF-8 bytes, and a lone
\* surrogate, which encode(errors="ignore") drops.
NoText == Text(0, 0)
Texts == {NoText, Text(2, 2), Text(6, 6), Text(1, 2), Text(1, 0)}

\* ServerSpec (lines 39-43); base_url plays no part in an outcome.
ServerSpec(n, m) == [name |-> n, model |-> m]
ServerPool == {ServerSpec("ollama", "llama"), ServerSpec("lmstudio", "llama")}

\* HTTP status codes a server can answer with: both edges of [200, 300).
StatusCodes == {199, 200, 299, 300, 500}

\* str(exc) of the exceptions the client raises.  httpx timeouts carry an
\* empty message: str(httpx.ConnectTimeout("")) == "".
ExcTexts == {"", "All connection attempts failed"}

-----------------------------------------------------------------------------
(* run_single_chat: the operators that model its code. *)

\* lines 136-140 and 149: the locals before the request is issued.
InitLocals ==
    [ttft_ms |-> None, total_ms |-> None, output_chars |-> 0, output_bytes |-> 0,
     status_code |-> None, first_token_emitted |-> FALSE]

\* A line of the feed, by the branch of lines 151-176 it takes:
\*   "empty"      the line is ""                                  (151-152)
\*   "done"       the payload is [DONE]                           (159-160)
\*   "raw"        json.loads raises JSONDecodeError; text is data (164-166)
\*   "delta"      choices[0].delta.content is the str text        (169-172)
\*   "content"    no choices; top-level content is the str text   (173-175)
\*   "notext"     a dict whose delta or content is missing/null   (172, 175)
\*   "nondict"    valid JSON that is no dict: obj.get raises      (169)
\*   "badchoice"  choices[0] is no dict: choices[0].get raises    (171)
\*   "numcontent" delta.content is a non-zero number: len raises  (181)
\* The optional "data: " prefix and surrounding spaces are stripped by lines
\* 153-157 and leave no trace in the outcome.
Line(k, t) == [kind |-> k, text |-> t]
Lines ==
    {Line("empty", NoText), Line("done", NoText), Line("raw", NoText),
     Line("notext", NoText), Line("nondict", NoText), Line("badchoice", NoText),
     Line("numcontent", NoText), Line("raw", Text(2, 2)), Line("content", Text(2, 2))}
    \cup {Line("delta", t) : t \in Texts \ {NoText}}

\* lines 162-176: the value bound to chunk_text, or the exception raised.
chunk_text(line) ==
    CASE line.kind \in {"raw", "delta", "content"} ->
            [exc |-> None, truthy |-> line.text.chars > 0, isstr |-> TRUE,
             text |-> line.text]
      [] line.kind = "notext" ->
            [exc |-> None, truthy |-> FALSE, isstr |-> TRUE, text |-> NoText]
      [] line.kind = "numcontent" ->
            [exc |-> None, truthy |-> TRUE, isstr |-> FALSE, text |-> NoText]
      [] line.kind = "nondict" ->
            [exc |-> Some("'list' object has no attribute 'get'"),
             truthy |-> FALSE, isstr |-> FALSE, text |-> NoText]
      [] line.kind = "badchoice" ->
            [exc |-> Some("'str' object has no attribute 'get'"),
             truthy |-> FALSE, isstr |-> FALSE, text |-> NoText]

\* A slip in line 178: the test of first_token_emitted is missing, so every
\* non-empty fragment records ttft_ms anew.
record_ttft_every(l, ms) ==
    [l EXCEPT !.ttft_ms = Some(ms), !.first_token_emitted = TRUE]

\* lines 177-180: the first non-empty fragment records ttft_ms.
record_ttft(l, ms) ==
    IF l.first_token_emitted
    THEN l
    ELSE [l EXCEPT !.ttft_ms = Some(ms), !.first_token_emitted = TRUE]

\* A slip in lines 181-182: "=" for "+=", the counters hold the last fragment.
count_chunk_last(l, text) ==
    [l EXCEPT !.output_chars = text.chars, !.output_bytes = text.bytes]

\* lines 181-182: the fragment is added to the two counters.
count_chunk(l, text) ==
    [l EXCEPT !.output_chars = @ + text.chars, !.output_bytes = @ + text.bytes]

\* A slip in line 177: the test "if chunk_text" is missing, so an empty
\* fragment records ttft_ms too.
stream_line_untested(l, line, ms) ==
    IF line.kind = "empty" THEN [ctl |-> "continue", exc |-> "", loc |-> l]
    ELSE IF line.kind = "done" THEN [ctl |-> "break", exc |-> "", loc |-> l]
    ELSE LET c == chunk_text(line) IN
         IF c.exc # None THEN [ctl |-> "raise", exc |-> c.exc[1], loc |-> l]
         ELSE IF ~c.isstr
              THEN [ctl |-> "raise", exc |-> "object of type 'int' has no len()",
                    loc |-> record_ttft(l, ms)]
              ELSE [ctl |-> "continue", exc |-> "",
                    loc |-> count_chunk(record_ttft(l, ms), c.text)]

\* A slip in line 160: "continue" for "break", so the feed is read on after
\* [DONE].
stream_line_no_break(l, line, ms) ==
    IF line.kind \in {"empty", "done"} THEN [ctl |-> "continue", exc |-> "", loc |-> l]
    ELSE LET c == chunk_text(line) IN
         IF c.exc # None THEN [ctl |-> "raise", exc |-> c.exc[1], loc |-> l]
         ELSE IF ~c.truthy THEN [ctl |-> "continue", exc |-> "", loc |-> l]
         ELSE IF ~c.isstr
              THEN [ctl |-> "raise", exc |-> "object of type 'int' has no len()",
                    loc |-> record_ttft(l, ms)]
              ELSE [ctl |-> "continue", exc |-> "",
                    loc |-> count_chunk(record_ttft(l, ms), c.text)]

\* lines 151-182: one iteration of the loop over resp.aiter_lines(), with the
\* elapsed time ms = (time.perf_counter() - t0) * 1000.0 at that moment.
\* ctl tells how the iteration ends: "continue", "break" or "raise".
stream_line(l, line, ms) ==
    IF line.kind = "empty" THEN [ctl |-> "continue", exc |-> "", loc |-> l]
    ELSE IF line.kind = "done" THEN [ctl |-> "break", exc |-> "", loc |-> l]
    ELSE LET c == chunk_text(line) IN
         IF c.exc # None THEN [ctl |-> "raise", exc |-> c.exc[1], loc |-> l]
         ELSE IF ~c.truthy THEN [ctl |-> "continue", exc |-> "", loc |-> l]
         ELSE IF ~c.isstr
              THEN [ctl |-> "raise", exc |-> "object of type 'int' has no len()",
                    loc |-> record_ttft(l, ms)]
              ELSE [ctl |-> "continue", exc |-> "",
                    loc |-> count_chunk(record_ttft(l, ms), c.text)]

\* A non-streaming response body, by the branch of lines 192-210 it takes:
\*   "message"   a dict whose choices[0].message.content is content (195-200)
\*   "nochoices" a dict without choices: json.dumps(data) is dumped (201-204)
\*   "nondict"   valid JSON that is no dict                         (205-207)
\*   "invalid"   resp.json() raises                                 (208-210)
\*   "badchoice" choices[0] is no dict: .get raises                 (197, 208-210)
\* raw is resp.text.
Body(k, c, d, r) == [kind |-> k, content |-> c, dumped |-> d, raw |-> r]
Bodies ==
    {Body("message", NoText, NoText, Text(6, 6)),
     Body("message", Text(2, 2), NoText, Text(6, 6)),
     Body("message", Text(1, 2), NoText, Text(6, 6)),
     Body("nochoices", NoText, Text(2, 2), Text(2, 2)),
     Body("nondict", NoText, NoText, Text(2, 2)),
     Body("invalid", NoText, NoText, NoText),
     Body("invalid", NoText, NoText, Text(6, 6)),
     Body("badchoice", NoText, NoText, Text(6, 6))}

\* lines 192-210: the text whose length is the output size.
measured_text(b) ==
    CASE b.kind = "message" -> b.content
      [] b.kind = "nochoices" -> b.dumped
      [] OTHER -> b.raw

\* lines 187-210: the non-streaming path once client.post has returned.
post_response(l, status, b, ms) ==
    [l EXCEPT !.status_code = Some(status),
              !.total_ms = Some(ms),
              !.ttft_ms = Some(ms),
              !.output_chars = measured_text(b).chars,
              !.output_bytes = measured_text(b).bytes]

\* line 212.
success_of(status_code) ==
    status_code # None /\ 200 <= status_code[1] /\ status_code[1] < 300

\* lines 212-225: the SingleResult of the normal return.
result_ok(trial, l) ==
    [server |-> trial.srv.name, model |-> trial.srv.model,
     prompt_id |-> trial.pidx, iteration |-> trial.it,
     success |-> success_of(l.status_code), status_code |-> l.status_code,
     ttft_ms |-> l.ttft_ms, total_ms |-> l.total_ms,
     output_chars |-> l.output_chars, output_bytes |-> l.output_bytes,
     error |-> None]

\* A slip in line 234: the except branch reports the status code obtained.
exc_status_code_kept(l) == l.status_code

\* line 234: the status code the except branch reports.
exc_status_code(l) == None

\* A slip in lines 235-238: the except branch reports the defaults of
\* SingleResult, not the locals accumulated before the failure.
result_exc_reset(trial, l, exc, ms) ==
    [server |-> trial.srv.name, model |-> trial.srv.model,
     prompt_id |-> trial.pidx, iteration |-> trial.it,
     success |-> FALSE, status_code |-> exc_status_code(l),
     ttft_ms |-> None, total_ms |-> Some(ms),
     output_chars |-> 0, output_bytes |-> 0,
     error |-> Some(exc)]

\* A slip in line 227: the except branch does not measure total_ms and
\* reports the local, still None when line 184 was not reached.
result_exc_total_local(trial, l, exc, ms) ==
    [server |-> trial.srv.name, model |-> trial.srv.model,
     prompt_id |-> trial.pidx, iteration |-> trial.it,
     success |-> FALSE, status_code |-> exc_status_code(l),
     ttft_ms |-> l.ttft_ms, total_ms |-> l.total_ms,
     output_chars |-> l.output_chars, output_bytes |-> l.output_bytes,
     error |-> Some(exc)]

\* lines 226-240: the SingleResult of the except branch; exc is str(exc).
result_exc(trial, l, exc, ms) ==
    [server |-> trial.srv.name, model |-> trial.srv.model,
     prompt_id |-> trial.pidx, iteration |-> trial.it,
     success |-> FALSE, status_code |-> exc_status_code(l),
     ttft_ms |-> l.ttft_ms, total_ms |-> Some(ms),
     output_chars |-> l.output_chars, output_bytes |-> l.output_bytes,
     error |-> Some(exc)]

\* line 184 followed by lines 212-225: the feed has ended.
result_end(trial, l, ms) == result_ok(trial, [l EXCEPT !.total_ms = Some(ms)])

-----------------------------------------------------------------------------
(* ChatSpec: one call of run_single_chat, stepped at its await points. *)

\* The arguments of the call: server, prompt_id, iteration.
Trial(s, p, i) == [srv |-> s, pidx |-> p, it |-> i]
ChatTrial == Trial(ServerSpec("ollama", "llama"), 0, 1)

\* (time.perf_counter() - t0) * 1000.0
elapsed_ms == (clk - t0) * 1000

\* The variables of run_benchmark and aggregate while they are not running.
BenchIdle ==
    /\ servers = <<>> /\ prompts = <<>> /\ iterations = 0 /\ concurrency = 1
    /\ semaphore = 1 /\ tasks = <<>> /\ tstate = <<>> /\ tresult = <<>>
    /\ tresp = <<>> /\ completed = <<>> /\ finished = <<>> /\ results = <<>>
    /\ mainpc = "idle" /\ admitted = None
ChatIdle ==
    /\ cpc = "idle" /\ clk = 0 /\ t0 = 0 /\ loc = InitLocals /\ feed = <<>>
    /\ body = None /\ cresult = None
AggIdle == aresults = <<>> /\ asummary = None /\ apc = "idle"
PctIdle == pvalues = <<>> /\ pp = <<0, 1>> /\ pret = None

\* run_single_chat touches no variable of run_benchmark or aggregate.
ChatFrame == UNCHANGED <<bvars, stream, avars, pvars>>

ChatInit ==
    /\ BenchIdle /\ AggIdle /\ PctIdle
    /\ stream \in BOOLEAN
    /\ cpc = "start" /\ clk = 0 /\ t0 = 0 /\ loc = InitLocals /\ feed = <<>>
    /\ body = None /\ cresult = None

\* The monotonic clock advances while the trial is in progress.
chat_tick ==
    /\ cpc \in {"start", "request", "stream"}
    /\ clk < MaxClock
    /\ clk' = clk + 1
    /\ UNCHANGED <<cpc, t0, loc, feed, body, cresult>>
    /\ ChatFrame

\* A slip in line 142: t0 is not read there but when the task is created
\* (the clock is 0 then), before "async with semaphore".
start_timestamp_created(now) == 0

\* line 142: t0 = time.perf_counter(), read inside run_single_chat.
start_timestamp(now) == now

\* lines 136-142: the locals are initialised and the start timestamp taken.
chat_start ==
    /\ cpc = "start"
    /\ t0' = start_timestamp(clk)
    /\ loc' = InitLocals
    /\ cpc' = "request"
    /\ UNCHANGED <<clk, feed, body, cresult>>
    /\ ChatFrame

\* lines 146 or 186 raise before any byte is received (connection refused,
\* connect timeout): the except branch of lines 226-240.
chat_request_raises(exc) ==
    /\ cpc = "request"
    /\ cresult' = Some(result_exc(ChatTrial, loc, exc, elapsed_ms))
    /\ cpc' = "returned"
    /\ UNCHANGED <<clk, t0, loc, feed, body>>
    /\ ChatFrame

\* lines 146-149: the streaming response opens with its status code.
chat_stream_opens(status) ==
    /\ stream /\ cpc = "request"
    /\ loc' = [loc EXCEPT !.status_code = Some(status)]
    /\ cpc' = "stream"
    /\ UNCHANGED <<clk, t0, feed, body, cresult>>
    /\ ChatFrame

\* lines 150-184 and 212-240: one line of the feed is consumed; a [DONE]
\* line ends the loop and returns, an exception returns through the except
\* branch.
chat_line(line) ==
    /\ stream /\ cpc = "stream" /\ Len(feed) < MaxLines
    /\ feed' = Append(feed, line)
    /\ LET r == stream_line(loc, line, elapsed_ms) IN
         CASE r.ctl = "continue" ->
                /\ loc' = r.loc
                /\ UNCHANGED <<cpc, cresult>>
           [] r.ctl = "break" ->
                /\ loc' = [r.loc EXCEPT !.total_ms = Some(elapsed_ms)]
                /\ cresult' = Some(result_end(ChatTrial, r.loc, elapsed_ms))
                /\ cpc' = "returned"
           [] r.ctl = "raise" ->
                /\ loc' = [r.loc EXCEPT !.total_ms = Some(elapsed_ms)]
                /\ cresult' = Some(result_exc(ChatTrial, r.loc, r.exc, elapsed_ms))
                /\ cpc' = "returned"
    /\ UNCHANGED <<clk, t0, body>>
    /\ ChatFrame

\* lines 150, 184 and 212-225: the server closes the feed without [DONE].
chat_feed_closes ==
    /\ stream /\ cpc = "stream"
    /\ loc' = [loc EXCEPT !.total_ms = Some(elapsed_ms)]
    /\ cresult' = Some(result_end(ChatTrial, loc, elapsed_ms))
    /\ cpc' = "returned"
    /\ UNCHANGED <<clk, t0, feed, body>>
    /\ ChatFrame

\* line 150 raises (read timeout, connection reset) after the status code was
\* obtained: the except branch of lines 226-240.
chat_feed_raises(exc) ==
    /\ stream /\ cpc = "stream"
    /\ loc' = [loc EXCEPT !.total_ms = Some(elapsed_ms)]
    /\ cresult' = Some(result_exc(ChatTrial, loc, exc, elapsed_ms))
    /\ cpc' = "returned"
    /\ UNCHANGED <<clk, t0, feed, body>>
    /\ ChatFrame

\* lines 186-225: client.post returns a response; the non-streaming path.
chat_post_returns(status, b) ==
    /\ ~stream /\ cpc = "request"
    /\ LET l == post_response(loc, status, b, elapsed_ms) IN
         /\ loc' = l
         /\ cresult' = Some(result_ok(ChatTrial, l))
    /\ body' = Some(b)
    /\ cpc' = "returned"
    /\ UNCHANGED <<clk, t0, feed>>
    /\ ChatFrame

ChatNext ==
    \/ chat_tick
    \/ chat_start
    \/ \E exc \in ExcTexts : chat_request_raises(exc)
    \/ \E status \in StatusCodes : chat_stream_opens(status)
    \/ \E line \in Lines : chat_line(line)
    \/ chat_feed_closes
    \/ \E exc \in ExcTexts : chat_feed_raises(exc)
    \/ \E status \in StatusCodes, b \in Bodies : chat_post_returns(status, b)

ChatSpec == ChatInit /\ [][ChatNext]_vars

-----------------------------------------------------------------------------
(* run_single_chat as one function of what the server does, for the tasks   *)
(* of run_benchmark: the same operators, folded over the whole response.   *)

\* What the server does during one trial, with the elapsed time (in ms since
\* t0) of each event:
\*   raised  Some(str(exc)) when lines 146 or 186 raise before any response
\*   status  the status code of the response
\*   feed    the lines of the streaming feed, each with its arrival time
\*   fail    Some(str(exc)) when the feed raises after those lines
\*   body    the body of the non-streaming response
\*   end_ms  the time at which the request raised, the feed ended or
\*           failed, or client.post returned
Response(r, s, f, x, b, e) ==
    [raised |-> r, status |-> s, feed |-> f, fail |-> x, body |-> b, end_ms |-> e]
At(line, ms) == [line |-> line, ms |-> ms]

\* lines 150-182: the loop over the feed, until it ends, breaks or raises.
RECURSIVE stream_loop(_, _, _)
stream_loop(l, items, i) ==
    IF i > Len(items)
    THEN [ctl |-> "end", exc |-> "", loc |-> l, ms |-> 0]
    ELSE LET r == stream_line(l, items[i].line, items[i].ms) IN
         IF r.ctl = "continue"
         THEN stream_loop(r.loc, items, i + 1)
         ELSE [ctl |-> r.ctl, exc |-> r.exc, loc |-> r.loc, ms |-> items[i].ms]

\* lines 136-240: the SingleResult of one trial.
run_single_chat(trial, cfg_stream, resp) ==
    IF resp.raised # None
    THEN result_exc(trial, InitLocals, resp.raised[1], resp.end_ms)
    ELSE IF cfg_stream
    THEN LET r == stream_loop([InitLocals EXCEPT !.status_code = Some(resp.status)],
                              resp.feed, 1) IN
         CASE r.ctl = "break" -> result_end(trial, r.loc, r.ms)
           [] r.ctl = "raise" -> result_exc(trial, r.loc, r.exc, r.ms)
           [] r.ctl = "end" ->
                IF resp.fail # None
                THEN result_exc(trial, r.loc, resp.fail[1], resp.end_ms)
                ELSE result_end(trial, r.loc, resp.end_ms)
    ELSE result_ok(trial, post_response(InitLocals, resp.status, resp.body, resp.end_ms))

-----------------------------------------------------------------------------
(* percentile and aggregate. *)

\* Floats are exact non-negative rationals n/d in lowest terms; NaN is
\* float("nan").  Rounding is not modelled.
RECURSIVE GCD(_, _)
GCD(a, b) == IF b = 0 THEN a ELSE GCD(b, a % b)

Rat(n, d) ==
    LET g == GCD(n, d) IN [nan |-> FALSE, n |-> n \div g, d |-> d \div g]
NaN == [nan |-> TRUE, n |-> 0, d |-> 1]
RatAdd(a, b) == Rat(a.n * b.d + b.n * a.d, a.d * b.d)
RatSub(a, b) == Rat(a.n * b.d - b.n * a.d, a.d * b.d)
RatMul(a, b) == Rat(a.n * b.n, a.d * b.d)
\* a / b for b # 0; Python raises ZeroDivisionError for b = 0.
RatDiv(a, b) == Rat(a.n * b.d, a.d * b.n)
IsZero(a) == ~a.nan /\ a.n = 0

RECURSIVE Sum(_)
Sum(xs) == IF xs = <<>> THEN 0 ELSE Head(xs) + Sum(Tail(xs))

\* line 92, sorted(values): a sorted copy, built by insertion.
RECURSIVE insert_sorted(_, _)
insert_sorted(x, xs) ==
    IF xs = <<>> THEN <<x>>
    ELSE IF x <= Head(xs) THEN <<x>> \o xs
    ELSE <<Head(xs)>> \o insert_sorted(x, Tail(xs))

RECURSIVE sorted(_)
sorted(xs) == IF xs = <<>> THEN <<>> ELSE insert_sorted(Head(xs), sorted(Tail(xs)))

\* A slip in line 92: the sample is indexed as given, without sorted().
percentile_unsorted(values, pn, pd) ==
    IF values = <<>> THEN NaN
    ELSE LET values_sorted == values
             k == Rat((Len(values_sorted) - 1) * pn, pd)
             f == k.n \div k.d
             c == IF f + 1 < Len(values_sorted) - 1 THEN f + 1
                  ELSE Len(values_sorted) - 1
         IN  IF f = c THEN Rat(values_sorted[f + 1], 1)
             ELSE LET d0 == RatMul(Rat(values_sorted[f + 1], 1), RatSub(Rat(c, 1), k))
                      d1 == RatMul(Rat(values_sorted[c + 1], 1), RatSub(k, Rat(f, 1)))
                  IN  RatAdd(d0, d1)

\* lines 89-100: percentile(values, p) for p = pn/pd.  Python indexes from
\* 0, the sequences here from 1.
percentile(values, pn, pd) ==
    IF values = <<>> THEN NaN
    ELSE LET values_sorted == sorted(values)
             k == Rat((Len(values_sorted) - 1) * pn, pd)
             f == k.n \div k.d
             c == IF f + 1 < Len(values_sorted) - 1 THEN f + 1
                  ELSE Len(values_sorted) - 1
         IN  IF f = c THEN Rat(values_sorted[f + 1], 1)
             ELSE LET d0 == RatMul(Rat(values_sorted[f + 1], 1), RatSub(Rat(c, 1), k))
                      d1 == RatMul(Rat(values_sorted[c + 1], 1), RatSub(k, Rat(f, 1)))
                  IN  RatAdd(d0, d1)

\* lines 286-289: sum(xs) / len(xs) if xs else float("nan").
mean_or_nan(xs) == IF xs = <<>> THEN NaN ELSE Rat(Sum(xs), Len(xs))

\* lines 295-299: the value of a statistic over no data.
empty_statistic == NaN

\* lines 295-299: percentile(xs, p) if xs else float("nan").
percentile_or_nan(xs, pn, pd) ==
    IF xs = <<>> THEN empty_statistic ELSE percentile(xs, pn, pd)

\* line 275: the key of an outcome.
key_of(r) == <<r.server, r.model>>

\* lines 273-276: the keys of groups, in the order of first occurrence.
RECURSIVE group_keys(_, _)
group_keys(rs, seen) ==
    IF rs = <<>> THEN seen
    ELSE IF \E i \in 1..Len(seen) : seen[i] = key_of(Head(rs))
         THEN group_keys(Tail(rs), seen)
         ELSE group_keys(Tail(rs), Append(seen, key_of(Head(rs))))

\* lines 273-276: groups[key], the outcomes of the key in their order.
group_items(rs, key) == SelectSeq(rs, LAMBDA r : key_of(r) = key)

\* lines 280-283: the four list comprehensions.
latencies_of(items) ==
    LET kept == SelectSeq(items, LAMBDA i : i.success /\ i.total_ms # None)
    IN  [j \in 1..Len(kept) |-> kept[j].total_ms[1]]
ttfts_of(items) ==
    LET kept == SelectSeq(items, LAMBDA i : i.success /\ i.ttft_ms # None)
    IN  [j \in 1..Len(kept) |-> kept[j].ttft_ms[1]]
out_chars_of(items) ==
    LET kept == SelectSeq(items, LAMBDA i : i.success)
    IN  [j \in 1..Len(kept) |-> kept[j].output_chars]
out_bytes_of(items) ==
    LET kept == SelectSeq(items, LAMBDA i : i.success)
    IN  [j \in 1..Len(kept) |-> kept[j].output_bytes]

\* line 284: sum(1 for i in items if i.success) / max(1, len(items)).
success_rate_of(items) ==
    Rat(Len(out_chars_of(items)), IF Len(items) > 1 THEN Len(items) ELSE 1)

\* lines 303-304: the division raises ZeroDivisionError when the mean total
\* duration is 0.0.
throughput_raises(items) ==
    latencies_of(items) # <<>> /\ IsZero(mean_or_nan(latencies_of(items)))

\* lines 303-304: (size_avg / (total_ms_avg / 1000.0)) if latencies else nan.
throughput(size_avg, items) ==
    IF latencies_of(items) # <<>>
    THEN RatDiv(size_avg, RatDiv(mean_or_nan(latencies_of(items)), Rat(1000, 1)))
    ELSE NaN

\* lines 280-305: the summary record of one group that does not raise.
summary_of(items) ==
    [runs |-> Len(items),
     success_rate |-> success_rate_of(items),
     ttft_ms_avg |-> mean_or_nan(ttfts_of(items)),
     ttft_ms_p50 |-> percentile_or_nan(ttfts_of(items), 50, 100),
     ttft_ms_p95 |-> percentile_or_nan(ttfts_of(items), 95, 100),
     total_ms_avg |-> mean_or_nan(latencies_of(items)),
     total_ms_p50 |-> percentile_or_nan(latencies_of(items), 50, 100),
     total_ms_p95 |-> percentile_or_nan(latencies_of(items), 95, 100),
     output_chars_avg |-> mean_or_nan(out_chars_of(items)),
     output_bytes_avg |-> mean_or_nan(out_bytes_of(items)),
     chars_per_sec_avg |-> throughput(mean_or_nan(out_chars_of(items)), items),
     bytes_per_sec_avg |-> throughput(mean_or_nan(out_bytes_of(items)), items)]

\* lines 272-307: aggregate(results).  The summary dict is the sequence of
\* its entries [key, stats] in insertion order; an uncaught exception leaves
\* no summary.
aggregate(rs) ==
    LET keys == group_keys(rs, <<>>) IN
    IF \E i \in 1..Len(keys) : throughput_raises(group_items(rs, keys[i]))
    THEN [raised |-> Some("float division by zero"), summary |-> <<>>]
    ELSE [raised |-> None,
          summary |-> [i \in 1..Len(keys) |->
                         [key |-> keys[i],
                          stats |-> summary_of(group_items(rs, keys[i]))]]]

-----------------------------------------------------------------------------
(* Spec: run_benchmark. *)

\* The responses the servers give to the tasks of run_benchmark: a 200 with
\* the fragment "Hi" and [DONE], a 500 without output, a refused connection.
BenchResponses ==
    {Response(None, 200, <<At(Line("delta", Text(2, 2)), 1000), At(Line("done", NoText), 2000)>>,
              None, Body("message", Text(2, 2), NoText, Text(6, 6)), 2000),
     Response(None, 500, <<>>, None, Body("nochoices", NoText, Text(2, 2), Text(2, 2)), 1000),
     Response(Some("All connection attempts failed"), 500, <<>>, None,
              Body("invalid", NoText, NoText, NoText), 0)}

\* A slip in line 261: range(1, iterations) stops one iteration early.
last_iteration_short(n) == n - 1

\* line 261: the last value of range(1, iterations + 1).
last_iteration(n) == n

\* lines 259-262: the nested loops that create the tasks, in their order.
RECURSIVE iteration_loop(_, _, _, _)
iteration_loop(srv, pidx, it, n) ==
    IF it > last_iteration(n) THEN <<>>
    ELSE <<Trial(srv, pidx, it)>> \o iteration_loop(srv, pidx, it + 1, n)

RECURSIVE prompt_loop(_, _, _, _)
prompt_loop(srv, ps, pidx, n) ==
    IF pidx >= Len(ps) THEN <<>>
    ELSE iteration_loop(srv, pidx, 1, n) \o prompt_loop(srv, ps, pidx + 1, n)

RECURSIVE server_loop(_, _, _, _)
server_loop(srvs, s, ps, n) ==
    IF s > Len(srvs) THEN <<>>
    ELSE prompt_loop(srvs[s], ps, 0, n) \o server_loop(srvs, s + 1, ps, n)

create_tasks(srvs, ps, n) == server_loop(srvs, 1, ps, n)

\* A slip in line 256: the task does not wait for a free slot.
can_acquire_unbounded(value) == TRUE

\* line 256, asyncio.Semaphore.acquire: a slot is free.
can_acquire(value) == value > 0

\* A slip in lines 256-257: the slot is released only after a successful
\* trial (acquire and release written by hand around the call).
semaphore_after_exit_on_success(value, res) ==
    IF res.success THEN value + 1 ELSE value

\* A slip in lines 256-257: the slot is never released.
semaphore_after_exit_kept(value, res) == value

\* line 256, asyncio.Semaphore.release on leaving "async with", whatever the
\* result of run_single_chat.
semaphore_after_exit(value, res) == value + 1

\* A slip in line 265: the finished tasks are taken last finished first.
as_completed_latest(queue) == queue[Len(queue)]

\* line 265: the task asyncio.as_completed yields next, the one that
\* finished first among those not yet yielded.
as_completed_next(queue) == Head(queue)

\* A slip in lines 265-269: the results are returned from inside the loop,
\* with the first outcome awaited.
as_completed_first(res, tsk) == tsk = <<>> \/ Len(res) >= 1

\* line 265: the loop over asyncio.as_completed(tasks) ends when every task
\* was yielded and its result appended.
as_completed_exhausted(res, tsk) == Len(res) = Len(tsk)

TaskIds == 1..Len(tasks)
Running == {t \in TaskIds : tstate[t] = "running"}

\* The servers lists of the model: at most MaxServers entries, repeats
\* allowed; the first entry is fixed, the names being interchangeable.
ServerLists ==
    {sl \in UNION {[1..n -> ServerPool] : n \in 0..MaxServers} :
        sl = <<>> \/ sl[1] = ServerSpec("ollama", "llama")}

\* The state once lines 250-264 have run: the semaphore is built, every task
\* is created and none has started.  cfg.stream has its default (line 59).
Init ==
    /\ servers \in ServerLists
    /\ prompts \in {[i \in 1..n |-> "prompt"] : n \in 0..MaxPrompts}
    /\ iterations \in 0..MaxIterations
    /\ concurrency \in 1..MaxConcurrency
    /\ Len(servers) * Len(prompts) * iterations <= MaxTrials
    /\ stream = TRUE
    /\ semaphore = concurrency
    /\ tasks = create_tasks(servers, prompts, iterations)
    /\ tstate = [t \in 1..Len(tasks) |-> "waiting"]
    /\ tresult = [t \in 1..Len(tasks) |-> None]
    /\ tresp = [t \in 1..Len(tasks) |-> None]
    /\ completed = <<>>
    /\ finished = <<>>
    /\ results = <<>>
    /\ mainpc = "collect"
    /\ admitted = None
    /\ ChatIdle /\ AggIdle /\ PctIdle

\* run_benchmark touches no variable of a separate run_single_chat call or of
\* aggregate, and never changes its arguments.
BenchFrame ==
    UNCHANGED <<servers, prompts, iterations, concurrency, stream, tasks, admitted,
                cvars, avars, pvars>>

\* lines 255-257 up to the request: task t enters "async with semaphore" and
\* starts run_single_chat.
bound_request_acquire(t) ==
    /\ tstate[t] = "waiting"
    /\ can_acquire(semaphore)
    /\ semaphore' = semaphore - 1
    /\ tstate' = [tstate EXCEPT ![t] = "running"]
    /\ UNCHANGED <<tresult, tresp, completed, finished, results, mainpc>>
    /\ BenchFrame

\* lines 256-257: run_single_chat returns its SingleResult, the semaphore is
\* released, the task finishes and as_completed queues it.
bound_request_returns(t, resp) ==
    /\ tstate[t] = "running"
    /\ LET res == run_single_chat(tasks[t], stream, resp) IN
         /\ tresult' = [tresult EXCEPT ![t] = Some(res)]
         /\ semaphore' = semaphore_after_exit(semaphore, res)
    /\ tresp' = [tresp EXCEPT ![t] = Some(resp)]
    /\ tstate' = [tstate EXCEPT ![t] = "done"]
    /\ completed' = Append(completed, t)
    /\ finished' = Append(finished, t)
    /\ UNCHANGED <<results, mainpc>>
    /\ BenchFrame

\* lines 265-267: the next finished task is awaited and its result appended.
collect_result ==
    /\ mainpc = "collect"
    /\ completed # <<>>
    /\ LET t == as_completed_next(completed) IN
         /\ results' = Append(results, tresult[t][1])
         /\ completed' = SelectSeq(completed, LAMBDA u : u # t)
    /\ UNCHANGED <<semaphore, tstate, tresult, tresp, finished, mainpc>>
    /\ BenchFrame

\* lines 265 and 269: as_completed has yielded every task; results is
\* returned.
return_results ==
    /\ mainpc = "collect"
    /\ as_completed_exhausted(results, tasks)
    /\ mainpc' = "returned"
    /\ UNCHANGED <<semaphore, tstate, tresult, tresp, completed, finished, results>>
    /\ BenchFrame

\* lines 428-433 of main: asyncio.run has returned the results and
\* aggregate is called with them.
main_aggregate ==
    /\ mainpc = "returned" /\ apc = "idle"
    /\ aresults' = results
    /\ asummary' = Some(aggregate(results))
    /\ apc' = "done"
    /\ UNCHANGED <<bvars, stream, cvars, pvars>>

Next ==
    \/ \E t \in TaskIds : bound_request_acquire(t)
    \/ \E t \in TaskIds, resp \in BenchResponses : bound_request_returns(t, resp)
    \/ collect_result
    \/ return_results
    \/ main_aggregate

Spec == Init /\ [][Next]_vars

\* The asyncio event loop runs every task that can run; every admitted
\* request ends by a response, an error or its timeout.
FairSpec ==
    /\ Spec
    /\ \A t \in 1..MaxTrials :
         /\ WF_vars(t \in TaskIds /\ bound_request_acquire(t))
         /\ WF_vars(t \in TaskIds /\ \E resp \in BenchResponses : bound_request_returns(t, resp))
    /\ WF_vars(collect_result)
    /\ WF_vars(return_results)

-----------------------------------------------------------------------------
(* AggSpec: aggregate applied to outcomes that run_single_chat returns. *)

\* What the servers did in the trials whose outcomes are aggregated, with
\* cfg.stream: outcomes with and without ttft, with a total duration of 0
\* and more, successes and both kinds of failure.
AggTrials ==
    {<<TRUE, Response(None, 200, <<At(Line("delta", Text(2, 2)), 1000), At(Line("done", NoText), 2000)>>,
                      None, Body("invalid", NoText, NoText, NoText), 2000)>>,
     <<TRUE, Response(None, 200, <<At(Line("delta", Text(6, 6)), 0)>>,
                      None, Body("invalid", NoText, NoText, NoText), 1000)>>,
     <<TRUE, Response(None, 200, <<At(Line("done", NoText), 1000)>>,
                      None, Body("invalid", NoText, NoText, NoText), 1000)>>,
     <<TRUE, Response(None, 200, <<>>, None, Body("invalid", NoText, NoText, NoText), 0)>>,
     <<TRUE, Response(None, 500, <<>>, None, Body("invalid", NoText, NoText, NoText), 1000)>>,
     <<TRUE, Response(Some(""), 500, <<>>, None, Body("invalid", NoText, NoText, NoText), 1000)>>,
     <<FALSE, Response(None, 200, <<>>, None, Body("message", Text(1, 2), NoText, Text(6, 6)), 3000)>>}

AggOutcomes ==
    {run_single_chat(Trial(srv, 0, 1), tr[1], tr[2]) : srv \in ServerPool, tr \in AggTrials}

AggInit ==
    /\ BenchIdle /\ ChatIdle /\ PctIdle
    /\ stream = TRUE
    /\ aresults \in UNION {[1..n -> AggOutcomes] : n \in 0..MaxResults}
    /\ asummary = None
    /\ apc = "call"

\* line 433: summary = aggregate(results).
aggregate_call ==
    /\ apc = "call"
    /\ asummary' = Some(aggregate(aresults))
    /\ apc' = "done"
    /\ UNCHANGED <<aresults, bvars, stream, cvars, pvars>>

AggNext == aggregate_call

AggSpec == AggInit /\ [][AggNext]_vars

-----------------------------------------------------------------------------
(* PctSpec: percentile applied to samples of durations. *)

\* The values of p: 0, the 0.5 and 0.95 of lines 295-299, and 1.
Fractions == {<<0, 1>>, <<1, 2>>, <<19, 20>>, <<1, 1>>}

\* Samples of at most MaxSample values in any order, repeats allowed.
Samples == UNION {[1..n -> 0..MaxValue] : n \in 0..MaxSample}

PctInit ==
    /\ BenchIdle /\ ChatIdle /\ AggIdle
    /\ stream = TRUE
    /\ pvalues \in Samples
    /\ pp \in Fractions
    /\ pret = None

\* lines 89-100: percentile(values, p) returns.
percentile_call ==
    /\ pret = None
    /\ pret' = Some(percentile(pvalues, pp[1], pp[2]))
    /\ UNCHANGED <<pvalues, pp, bvars, stream, cvars, avars>>

PctNext == percentile_call

PctSpec == PctInit /\ [][PctNext]_vars

-----------------------------------------------------------------------------
(* BoundSpec: one task of bound_request (lines 255-257), from its creation  *)
(* to the release of its slot, with run_single_chat stepped inside.  The    *)
(* other tasks of the run are present by the slots they take and free.      *)

\* What the server of the observed task answers.
BoundStatuses == {200, 500}
BoundLines == {Line("delta", Text(2, 2)), Line("done", NoText)}
BoundBodies == {Body("message", Text(2, 2), NoText, Text(6, 6))}
BoundExcTexts == {"All connection attempts failed"}

\* The task is created at clock 0 (line 262), when no task has run yet and
\* every slot is free.
BoundInit ==
    /\ servers = <<>> /\ prompts = <<>> /\ iterations = 0
    /\ concurrency \in 1..MaxConcurrency
    /\ semaphore = concurrency
    /\ stream \in BOOLEAN
    /\ tasks = <<ChatTrial>>
    /\ tstate = <<"waiting">>
    /\ tresult = <<None>>
    /\ tresp = <<None>>
    /\ completed = <<>> /\ finished = <<>> /\ results = <<>>
    /\ mainpc = "collect"
    /\ admitted = None
    /\ ChatIdle /\ AggIdle /\ PctIdle

\* The steps of bound_request and of the other tasks leave the trial as it
\* is.
BoundFrame ==
    UNCHANGED <<servers, prompts, iterations, concurrency, stream, tasks, tresp,
                completed, finished, results, mainpc, avars, pvars>>

\* The clock advances while the task waits for a slot.
bound_request_waits ==
    /\ tstate[1] = "waiting"
    /\ clk < MaxClock
    /\ clk' = clk + 1
    /\ UNCHANGED <<semaphore, tstate, tresult, admitted, cpc, t0, loc, feed, body, cresult>>
    /\ BoundFrame

\* line 256: another task acquires a slot.
other_task_acquires ==
    /\ tstate[1] # "done"
    /\ can_acquire(semaphore)
    /\ semaphore' = semaphore - 1
    /\ UNCHANGED <<tstate, tresult, admitted, cvars>>
    /\ BoundFrame

\* lines 256-257: another task leaves "async with" and frees its slot.
other_task_releases ==
    /\ tstate[1] # "done"
    /\ semaphore < concurrency - (IF tstate[1] = "running" THEN 1 ELSE 0)
    /\ semaphore' = semaphore + 1
    /\ UNCHANGED <<tstate, tresult, admitted, cvars>>
    /\ BoundFrame

\* lines 256-257: the task acquires a slot and calls run_single_chat.
bound_request_enter ==
    /\ tstate[1] = "waiting"
    /\ can_acquire(semaphore)
    /\ semaphore' = semaphore - 1
    /\ tstate' = <<"running">>
    /\ admitted' = Some(clk)
    /\ cpc' = "start"
    /\ UNCHANGED <<tresult, clk, t0, loc, feed, body, cresult>>
    /\ BoundFrame

\* lines 256-257: run_single_chat has returned; the slot is released on
\* leaving "async with" and the task finishes with the outcome.
bound_request_exit ==
    /\ tstate[1] = "running"
    /\ cpc = "returned"
    /\ semaphore' = semaphore_after_exit(semaphore, cresult[1])
    /\ tstate' = <<"done">>
    /\ tresult' = <<cresult>>
    /\ UNCHANGED <<admitted, cvars>>
    /\ BoundFrame

BoundNext ==
    \/ bound_request_waits
    \/ other_task_acquires
    \/ other_task_releases
    \/ bound_request_enter
    \/ chat_tick
    \/ chat_start
    \/ \E exc \in BoundExcTexts : chat_request_raises(exc)
    \/ \E status \in BoundStatuses : chat_stream_opens(status)
    \/ \E line \in BoundLines : chat_line(line)
    \/ chat_feed_closes
    \/ \E exc \in BoundExcTexts : chat_feed_raises(exc)
    \/ \E status \in BoundStatuses, b \in BoundBodies : chat_post_returns(status, b)
    \/ bound_request_exit

BoundSpec == BoundInit /\ [][BoundNext]_vars

-----------------------------------------------------------------------------
(* Claims about run_benchmark, checked under Spec and FairSpec. *)

Waiting == {t \in TaskIds : tstate[t] = "waiting"}
Done == {t \in TaskIds : tstate[t] = "done"}

\* C1: at every instant at most `concurrency` trials are inside
\* run_single_chat, holding a slot of the semaphore.
C1_AtMostKRunning == Cardinality(Running) <= concurrency

\* The limit of 2 is reached while another trial waits for a slot.
C1_Witness ==
    concurrency = 2 /\ Cardinality(Running) = 2 /\ Waiting # {}

\* The outcomes in results of server entry srv, prompt index p, iteration it.
OutcomesOf(srv, p, it) ==
    {i \in 1..Len(results) :
        /\ results[i].server = srv.name /\ results[i].model = srv.model
        /\ results[i].prompt_id = p /\ results[i].iteration = it}

\* C2: the returned list holds exactly one outcome per submitted trial, so
\* as many outcomes of a (server, prompt index, iteration) as the servers
\* list has entries of that server, and |servers| x |prompts| x iterations
\* in all.
C2_OneOutcomePerTrial ==
    mainpc = "returned" =>
        /\ Len(results) = Len(servers) * Len(prompts) * iterations
        /\ \A srv \in ServerPool, p \in 0..(Len(prompts) - 1), it \in 1..iterations :
             Cardinality(OutcomesOf(srv, p, it))
               = Cardinality({s \in 1..Len(servers) : servers[s] = srv})

\* A run of three trials has returned with successes and failures mixed.
C2_Witness ==
    /\ mainpc = "returned" /\ Len(results) = 3
    /\ \E i, j \in 1..Len(results) : results[i].success /\ ~results[j].success

\* Task t finishes in this step with a failed outcome.
FailsNow(t) ==
    /\ tstate[t] = "running" /\ tstate'[t] = "done"
    /\ ~tresult'[t][1].success

\* C4: a failing trial releases its slot like a successful one (the free
\* slots always are the limit less the trials inside run_single_chat), its
\* failure leaves every other task and result untouched, every trial still
\* finishes, and each outcome is the one its own server response decides.
C4_FailureIsolated ==
    /\ [](semaphore = concurrency - Cardinality(Running))
    /\ [][\A t \in TaskIds :
            FailsNow(t) =>
               /\ semaphore' = semaphore + 1
               /\ \A u \in TaskIds \ {t} :
                    tstate'[u] = tstate[u] /\ tresult'[u] = tresult[u]]_vars
    /\ [](\A u \in Done :
            tresult[u] = Some(run_single_chat(tasks[u], stream, tresp[u][1])))
    /\ <>(Done = TaskIds)

\* A trial failed, and a trial that finished after it succeeded.
C4_Witness ==
    \E i, j \in 1..Len(finished) :
        /\ i < j
        /\ ~tresult[finished[i]][1].success
        /\ tresult[finished[j]][1].success

\* C6: under the fairness of the event loop every waiting trial is
\* eventually admitted (a task never waits again once admitted, so in the end
\* no task waits), run_benchmark eventually returns, and no state before the
\* return is a deadlock.
C6_Progress ==
    /\ <>[](Waiting = {} /\ mainpc = "returned")
    /\ [](mainpc # "returned" => ENABLED Next)

\* A trial waits for admission while every slot is taken.
C6_Witness == Waiting # {} /\ semaphore = 0

\* C7: results is in the order of completion: its i-th outcome is the result
\* of the i-th task to finish, whatever the order of submission.
C7_CompletionOrder ==
    \A i \in 1..Len(results) : results[i] = tresult[finished[i]][1]

\* run_benchmark has returned and a later-submitted task finished first.
C7_Witness ==
    /\ mainpc = "returned" /\ Len(results) >= 2
    /\ \E i, j \in 1..Len(finished) : i < j /\ finished[i] > finished[j]

-----------------------------------------------------------------------------
(* Claims about run_single_chat, checked under ChatSpec. *)

Returned == cpc = "returned" /\ cresult # None

\* The exception of lines 146 or 186 was raised before any response: no
\* status code was ever obtained.
RequestRaised == Returned /\ cresult[1].error # None /\ loc.status_code = None

\* A line that carries a non-empty content, str or not.
CarriesContent(line) ==
    \/ line.kind \in {"raw", "delta", "content"} /\ line.text.chars > 0
    \/ line.kind = "numcontent"

\* The streaming response was obtained and none of its consumed lines
\* carried any content.
ZeroTokenStream ==
    /\ Returned /\ stream /\ loc.status_code # None
    /\ \A i \in 1..Len(feed) : ~CarriesContent(feed[i])

\* The non-streaming response was obtained and its message content is "".
ZeroTokenPost ==
    /\ Returned /\ ~stream /\ body # None
    /\ body[1].kind = "message" /\ body[1].content.chars = 0

InRange(code) == 200 <= code /\ code < 300

\* C3: on every path (streaming, non-streaming, exception) the returned
\* outcome has success=true only with a status code present and in
\* [200,300), and success=false only with the status code absent or outside
\* [200,300).
C3_SuccessMatchesStatus ==
    Returned =>
        LET r == cresult[1] IN
        /\ r.success => (r.status_code # None /\ InRange(r.status_code[1]))
        /\ ~r.success => (r.status_code = None \/ ~InRange(r.status_code[1]))

\* A trial that obtained status 200 and then failed in the feed.
C3_Witness ==
    /\ Returned /\ ~cresult[1].success
    /\ loc.status_code = Some(200) /\ cresult[1].error # None

\* C5: a trial whose request raises before any byte is received yields
\* success=false, ttft undefined, total duration defined, status code
\* undefined and a non-empty error text, whatever the exception.
C5_RequestFailureOutcome ==
    RequestRaised =>
        LET r == cresult[1] IN
        /\ ~r.success
        /\ r.ttft_ms = None
        /\ r.total_ms # None
        /\ r.status_code = None
        /\ r.error # None /\ r.error[1] # ""

\* C8 as stated: a response with zero output tokens, streaming or not,
\* yields output_chars=0 and ttft undefined, with success decided by the
\* status code alone.
C8_ZeroTokensAnyPath ==
    (ZeroTokenStream \/ ZeroTokenPost) =>
        LET r == cresult[1] IN
        /\ r.output_chars = 0
        /\ r.ttft_ms = None
        /\ r.success <=> (r.status_code # None /\ InRange(r.status_code[1]))

\* C8 amended: a streaming response with zero output tokens yields
\* output_chars=0 and ttft undefined; a non-streaming response with an empty
\* message content yields output_chars=0 and ttft equal to the total
\* duration; in both, success is decided by the outcome's status code alone.
C8_ZeroTokens ==
    /\ ZeroTokenStream =>
        LET r == cresult[1] IN
        /\ r.output_chars = 0
        /\ r.ttft_ms = None
        /\ r.success <=> (r.status_code # None /\ InRange(r.status_code[1]))
    /\ ZeroTokenPost =>
        LET r == cresult[1] IN
        /\ r.output_chars = 0
        /\ r.ttft_ms # None /\ r.ttft_ms = r.total_ms
        /\ r.success <=> (r.status_code # None /\ InRange(r.status_code[1]))

\* A streaming trial that consumed an empty fragment and [DONE] with status
\* 200 and returned.
C8_Witness ==
    /\ ZeroTokenStream /\ cresult[1].success
    /\ Len(feed) = 2 /\ feed[1].kind = "notext" /\ feed[2].kind = "done"

-----------------------------------------------------------------------------
(* Claims about aggregate, checked under AggSpec. *)

AggReturned == apc = "done" /\ asummary # None /\ asummary[1].raised = None

\* The summary record of a key, when aggregate returned one.
HasRecord(key) ==
    AggReturned /\ \E i \in 1..Len(asummary[1].summary) : asummary[1].summary[i].key = key
RecordOf(key) ==
    LET i == CHOOSE j \in 1..Len(asummary[1].summary) : asummary[1].summary[j].key = key
    IN  asummary[1].summary[i].stats

AggKeys == {key_of(aresults[i]) : i \in 1..Len(aresults)}
ItemsOf(key) == SelectSeq(aresults, LAMBDA r : key_of(r) = key)
Successes(key) == SelectSeq(ItemsOf(key), LAMBDA r : r.success)
TimedTotals(key) ==
    {i \in 1..Len(ItemsOf(key)) : ItemsOf(key)[i].success /\ ItemsOf(key)[i].total_ms # None}
TimedTtfts(key) ==
    {i \in 1..Len(ItemsOf(key)) : ItemsOf(key)[i].success /\ ItemsOf(key)[i].ttft_ms # None}
TotalSum(key) ==
    Sum([i \in 1..Len(Successes(key)) |->
            IF Successes(key)[i].total_ms = None THEN 0 ELSE Successes(key)[i].total_ms[1]])
CharSum(key) == Sum([i \in 1..Len(Successes(key)) |-> Successes(key)[i].output_chars])
ByteSum(key) == Sum([i \in 1..Len(Successes(key)) |-> Successes(key)[i].output_bytes])

\* C9: aggregate never fails, and the throughput figures of every group are
\* the mean output size divided by the mean total duration in seconds, and
\* the undefined sentinel when that mean is undefined or zero.
C9_ThroughputOrSentinel ==
    apc = "done" =>
        /\ asummary[1].raised = None
        /\ \A key \in AggKeys :
             /\ HasRecord(key)
             /\ IF TimedTotals(key) = {} \/ TotalSum(key) = 0
                THEN /\ RecordOf(key).chars_per_sec_avg = NaN
                     /\ RecordOf(key).bytes_per_sec_avg = NaN
                ELSE \* (sum of sizes / count) / (sum of totals / count / 1000)
                     /\ RecordOf(key).chars_per_sec_avg
                          = Rat(CharSum(key) * Cardinality(TimedTotals(key)) * 1000,
                                Len(Successes(key)) * TotalSum(key))
                     /\ RecordOf(key).bytes_per_sec_avg
                          = Rat(ByteSum(key) * Cardinality(TimedTotals(key)) * 1000,
                                Len(Successes(key)) * TotalSum(key))

\* C10: a group without a successful outcome that has a ttft (a total
\* duration) has a summary record whose ttft (total) mean, p50 and p95 are
\* the undefined sentinel, and whose success_rate is a number, 0 when every
\* outcome failed.
C10_NoDataIsSentinel ==
    apc = "done" =>
        \A key \in AggKeys :
            /\ TimedTtfts(key) = {} =>
                 /\ HasRecord(key)
                 /\ RecordOf(key).ttft_ms_avg = NaN
                 /\ RecordOf(key).ttft_ms_p50 = NaN
                 /\ RecordOf(key).ttft_ms_p95 = NaN
                 /\ ~RecordOf(key).success_rate.nan
                 /\ (Successes(key) = <<>> => IsZero(RecordOf(key).success_rate))
            /\ TimedTotals(key) = {} =>
                 /\ HasRecord(key)
                 /\ RecordOf(key).total_ms_avg = NaN
                 /\ RecordOf(key).total_ms_p50 = NaN
                 /\ RecordOf(key).total_ms_p95 = NaN
                 /\ ~RecordOf(key).success_rate.nan
                 /\ (Successes(key) = <<>> => IsZero(RecordOf(key).success_rate))

\* The place in the outcome list where a key occurs first.
FirstIndex(key) ==
    CHOOSE i \in 1..Len(aresults) :
        key_of(aresults[i]) = key /\ \A j \in 1..(i - 1) : key_of(aresults[j]) # key

\* C11: for every outcome list aggregate produces exactly one summary record
\* per distinct (server, model) pair of the list, in the order of first
\* occurrence; the runs of a record is the number of outcomes of its pair,
\* and the runs of all records sum to the length of the list.
C11_OneRecordPerKey ==
    apc = "done" =>
        /\ asummary[1].raised = None
        /\ LET s == asummary[1].summary IN
           /\ Len(s) = Cardinality(AggKeys)
           /\ \A i \in 1..Len(s) : s[i].key \in AggKeys
           /\ \A key \in AggKeys :
                HasRecord(key) /\ RecordOf(key).runs = Len(ItemsOf(key))
           /\ \A i, j \in 1..Len(s) :
                i < j => FirstIndex(s[i].key) < FirstIndex(s[j].key)
           /\ Sum([i \in 1..Len(s) |-> s[i].stats.runs]) = Len(aresults)

-----------------------------------------------------------------------------
(* Claims about the streaming path of run_single_chat, checked under       *)
(* ChatSpec.                                                               *)

\* The text fragment that lines 162-176 extract from a consumed line.
FragmentOf(line) ==
    IF line.kind \in {"raw", "delta", "content"} THEN line.text ELSE NoText

FeedChars == Sum([i \in 1..Len(feed) |-> FragmentOf(feed[i]).chars])
FeedBytes == Sum([i \in 1..Len(feed) |-> FragmentOf(feed[i]).bytes])
FragmentSeen == \E i \in 1..Len(feed) : FragmentOf(feed[i]).chars > 0

\* The streaming trial returned after its feed ended, by [DONE] or by the
\* server closing it.
StreamEnded ==
    /\ Returned /\ stream /\ loc.status_code # None /\ cresult[1].error = None

\* C12: after the feed of a streaming trial ends, output_chars is the sum of
\* the lengths of the non-empty fragments extracted from the consumed lines,
\* and ttft is defined exactly when one such fragment was seen.
C12_StreamCounts ==
    StreamEnded =>
        /\ cresult[1].output_chars = FeedChars
        /\ cresult[1].ttft_ms # None <=> FragmentSeen

\* The fragments "Hi" and " there" with status 200: output_chars=8, ttft
\* set, success.
C12_Witness ==
    /\ StreamEnded
    /\ feed = <<Line("delta", Text(2, 2)), Line("delta", Text(6, 6))>>
    /\ cresult[1].output_chars = 8 /\ cresult[1].ttft_ms # None
    /\ cresult[1].success /\ cresult[1].status_code = Some(200)

-----------------------------------------------------------------------------
(* Claims about percentile, checked under PctSpec. *)

SampleMin == CHOOSE x \in {pvalues[i] : i \in 1..Len(pvalues)} :
                 \A i \in 1..Len(pvalues) : x <= pvalues[i]
SampleMax == CHOOSE x \in {pvalues[i] : i \in 1..Len(pvalues)} :
                 \A i \in 1..Len(pvalues) : x >= pvalues[i]

\* C13: for every non-empty sample, in any order and with repeats,
\* percentile(values, 0) is the minimum of the sample and
\* percentile(values, 1) its maximum.
C13_PercentileEnds ==
    (pret # None /\ pvalues # <<>>) =>
        /\ pp = <<0, 1>> => pret[1] = Rat(SampleMin, 1)
        /\ pp = <<1, 1>> => pret[1] = Rat(SampleMax, 1)

\* percentile(values, 0) returned the minimum of an unsorted sample with a
\* repeated value.
C13_Witness ==
    /\ pret # None /\ pp = <<0, 1>>
    /\ pvalues = <<2, 1, 2>> /\ pret[1] = Rat(1, 1)

-----------------------------------------------------------------------------
(* Claims about the steps of the streaming loop, checked under ChatSpec.   *)

\* This step consumes one more line of the feed.
LineRead == stream /\ feed' # feed
LastRead == feed'[Len(feed')]

\* C14: in the streaming path ttft is recorded at most once: it is undefined
\* until the first line that carries content, it is set when that line is
\* read, to the time elapsed then, no later step changes it, and the
\* outcome reports it.
C14_TtftOnce ==
    /\ [][(stream /\ loc.ttft_ms # None) => loc'.ttft_ms = loc.ttft_ms]_vars
    /\ [][(stream /\ loc.ttft_ms = None /\ loc'.ttft_ms # None) =>
             /\ LineRead /\ CarriesContent(LastRead)
             /\ loc'.ttft_ms = Some(elapsed_ms)]_vars
    /\ [](stream =>
             (loc.ttft_ms # None <=> \E i \in 1..Len(feed) : CarriesContent(feed[i])))
    /\ [](Returned /\ stream => cresult[1].ttft_ms = loc.ttft_ms)

\* Two fragments were read, the first at once and the trial ran for two
\* seconds: ttft is still the time of the first.
C14_Witness ==
    /\ Returned /\ stream /\ Len(feed) = 2
    /\ CarriesContent(feed[1]) /\ CarriesContent(feed[2])
    /\ cresult[1].ttft_ms = Some(0) /\ cresult[1].total_ms = Some(2000)

\* C15: once a line whose payload is [DONE] is read no later line is
\* consumed: the trial returns at that line with the counters and ttft it
\* had and the total duration elapsed then, and nothing changes afterwards.
C15_DoneStops ==
    /\ [](stream =>
             \A i \in 1..Len(feed) :
                 feed[i].kind = "done" =>
                     i = Len(feed) /\ Returned /\ cresult[1].error = None)
    /\ [][(LineRead /\ LastRead.kind = "done") =>
             /\ cresult' # None
             /\ cresult'[1].total_ms = Some(elapsed_ms)
             /\ cresult'[1].output_chars = loc.output_chars
             /\ cresult'[1].output_bytes = loc.output_bytes
             /\ cresult'[1].ttft_ms = loc.ttft_ms]_vars
    /\ [][cpc = "returned" => UNCHANGED <<feed, loc, cresult>>]_vars

\* "Hi" was read at once and [DONE] a second later.
C15_Witness ==
    /\ Returned /\ stream
    /\ feed = <<Line("delta", Text(2, 2)), Line("done", NoText)>>
    /\ cresult[1].output_chars = 2 /\ cresult[1].ttft_ms = Some(0)
    /\ cresult[1].total_ms = Some(1000)

\* C16: no payload of a non-empty line other than [DONE] fails the trial:
\* its fragment, if any, is counted and the feed keeps being consumed, so
\* that the outcome's success depends on the status code alone.
C16_NoPayloadFailsTrial ==
    [][(LineRead /\ LastRead.kind \notin {"empty", "done"}) =>
          /\ cpc' = "stream" /\ cresult' = None
          /\ loc'.output_chars = loc.output_chars + FragmentOf(LastRead).chars
          /\ loc'.output_bytes = loc.output_bytes + FragmentOf(LastRead).bytes]_vars

-----------------------------------------------------------------------------
(* Claims about the outcomes of run_single_chat, checked under ChatSpec.   *)

\* The trial returned through the except branch after the status code of
\* the streaming response was obtained.
FailedAfterStatus ==
    /\ Returned /\ stream /\ loc.status_code # None /\ cresult[1].error # None

\* C17: an exception raised after the status code was obtained yields
\* success=false, no status code, an error text, the total duration elapsed
\* at the failure, and the ttft and output counters accumulated before it.
C17_FailureKeepsPartial ==
    /\ [](FailedAfterStatus =>
             LET r == cresult[1] IN
             /\ ~r.success /\ r.status_code = None
             /\ r.total_ms = Some(elapsed_ms)
             /\ r.output_chars = FeedChars /\ r.output_bytes = FeedBytes
             /\ r.ttft_ms # None <=> \E i \in 1..Len(feed) : CarriesContent(feed[i]))
    /\ [][(\E exc \in ExcTexts : chat_feed_raises(exc)) =>
             /\ cresult' # None /\ cresult'[1].error # None
             /\ ~cresult'[1].success /\ cresult'[1].status_code = None
             /\ cresult'[1].total_ms = Some(elapsed_ms)
             /\ cresult'[1].ttft_ms = loc.ttft_ms
             /\ cresult'[1].output_chars = loc.output_chars
             /\ cresult'[1].output_bytes = loc.output_bytes]_vars

\* Status 200 and the fragment "Hi" were received at once, and the feed
\* broke a second later.
C17_Witness ==
    /\ FailedAfterStatus /\ loc.status_code = Some(200)
    /\ feed = <<Line("delta", Text(2, 2))>>
    /\ cresult[1].output_chars = 2 /\ cresult[1].output_bytes = 2
    /\ cresult[1].ttft_ms = Some(0) /\ cresult[1].total_ms = Some(1000)

\* C19: every outcome of run_single_chat, on every path, has a total
\* duration; a ttft that is defined is at most the total duration; on the
\* normal return of the non-streaming path ttft is the total duration.
C19_TotalBoundsTtft ==
    Returned =>
        LET r == cresult[1] IN
        /\ r.total_ms # None
        /\ r.ttft_ms # None => r.ttft_ms[1] <= r.total_ms[1]
        /\ (~stream /\ r.error = None) => (r.ttft_ms # None /\ r.ttft_ms = r.total_ms)

\* A streaming trial failed two seconds after its start, one second after
\* its first fragment.
C19_Witness ==
    /\ Returned /\ stream /\ cresult[1].error # None
    /\ cresult[1].ttft_ms = Some(1000) /\ cresult[1].total_ms = Some(2000)

-----------------------------------------------------------------------------
(* Claims about the end of run_benchmark, checked under Spec. *)

\* C18: run_benchmark returns only after every trial has completed: once it
\* has returned no trial waits or is in flight, every slot of the semaphore
\* is free and results holds every outcome; aggregate is called only then,
\* with those results, so no trial runs while it does.
C18_ReturnAfterAll ==
    /\ mainpc = "returned" =>
          /\ Waiting = {} /\ Running = {}
          /\ semaphore = concurrency
          /\ Len(results) = Len(tasks)
    /\ apc # "idle" =>
          /\ mainpc = "returned" /\ Waiting = {} /\ Running = {}
          /\ aresults = results

\* Three trials ran two at a time, one failed, and aggregate was called.
C18_Witness ==
    /\ apc = "done" /\ Len(results) = 3
    /\ concurrency = 2 /\ semaphore = 2
    /\ \E i \in 1..Len(results) : ~results[i].success

-----------------------------------------------------------------------------
(* Claims about bound_request, checked under BoundSpec. *)

\* C20: for a trial the events are ordered admit, record start, issue
\* request, record total, release slot: nothing of the trial happens while
\* it waits, the start timestamp is the clock read while the slot is held,
\* never earlier than the admission, the slot is released only once the
\* outcome with its total duration exists, and so neither ttft nor the
\* total duration includes the time spent waiting for the slot.
C20_StartAfterAdmission ==
    /\ [](tstate[1] = "waiting" =>
             cpc = "idle" /\ admitted = None /\ cresult = None)
    /\ [](cpc \in {"start", "request", "stream"} =>
             tstate[1] = "running" /\ admitted # None)
    /\ [][(cpc = "start" /\ cpc' = "request") =>
             tstate[1] = "running" /\ t0' = clk]_vars
    /\ [](cpc \in {"request", "stream", "returned"} => t0 >= admitted[1])
    /\ [](Returned =>
             /\ cresult[1].total_ms # None
             /\ cresult[1].total_ms[1] <= (clk - admitted[1]) * 1000
             /\ cresult[1].ttft_ms # None =>
                   cresult[1].ttft_ms[1] <= (clk - admitted[1]) * 1000)
    /\ [][(tstate[1] = "running" /\ tstate'[1] = "done") =>
             /\ Returned /\ tresult'[1] = cresult
             /\ semaphore' = semaphore + 1]_vars

\* The task waited one second for a slot, then ran one second: its total
\* duration is one second, and its slot is released.
C20_Witness ==
    /\ tstate[1] = "done" /\ admitted = Some(1) /\ clk = 2
    /\ tresult[1] # None /\ tresult[1][1].total_ms = Some(1000)

====
